---- MODULE Spec2Model ----
(***************************************************************************)
(* Receipt recognition-and-classification pipeline of deductai-ocr-nlp:    *)
(* classify.py (LLM-backed classification with keyword fallback) and       *)
(* ocr.py (two-pass OCR with a lazily initialised shared reader).          *)
(*                                                                         *)
(* A Python str is modelled as a sequence of one-character strings, so     *)
(* that substring search, case folding, word boundaries, splitting and     *)
(* stripping are computed character by character as the code computes     *)
(* them.                                                                   *)
(***************************************************************************)
EXTENDS Integers, Sequences, FiniteSets, TLC

(***************************************************************************)
(* Python str primitives                                                   *)
(***************************************************************************)
UpperAlpha ==
    <<"A","B","C","D","E","F","G","H","I","J","K","L","M",
      "N","O","P","Q","R","S","T","U","V","W","X","Y","Z">>

LowerAlpha ==
    <<"a","b","c","d","e","f","g","h","i","j","k","l","m",
      "n","o","p","q","r","s","t","u","v","w","x","y","z">>

Digits == {"0","1","2","3","4","5","6","7","8","9"}

Range(s) == { s[i] : i \in DOMAIN s }

\* str.lower() on one character
LowerChar(c) ==
    IF c \in Range(UpperAlpha)
    THEN LowerAlpha[CHOOSE i \in DOMAIN UpperAlpha : UpperAlpha[i] = c]
    ELSE c

\* str.lower()
Lower(s) == [i \in DOMAIN s |-> LowerChar(s[i])]

\* Python's "kw in text" on str: kw occurs as a contiguous substring
Contains(text, kw) ==
    \E i \in 1..(Len(text) - Len(kw) + 1) : SubSeq(text, i, i + Len(kw) - 1) = kw

\* any(keyword in text for keyword in keywords)
AnyKeywordIn(keywords, text) ==
    \E k \in DOMAIN keywords : Contains(text, keywords[k])

\* characters str.strip() removes and "not text.strip()" ignores
Whitespace == {" ", "\n", "\t"}

RECURSIVE LStrip(_)
LStrip(s) == IF s # <<>> /\ Head(s) \in Whitespace THEN LStrip(Tail(s)) ELSE s

RECURSIVE RStrip(_)
RStrip(s) ==
    IF s # <<>> /\ s[Len(s)] \in Whitespace THEN RStrip(SubSeq(s, 1, Len(s) - 1)) ELSE s

\* str.strip()
Strip(s) == RStrip(LStrip(s))

\* the regex class \w restricted to ASCII: letters, digits, underscore
IsWordChar(c) == c \in Range(UpperAlpha) \cup Range(LowerAlpha) \cup Digits \cup {"_"}

\* the regex assertion \b at the gap after position p (0..Len(s)) of s
WordBoundary(s, p) ==
    LET before == p >= 1 /\ IsWordChar(s[p])
        after  == p < Len(s) /\ IsWordChar(s[p + 1])
    IN  before # after

\* re.search(r"\b" + re.escape(phrase) + r"\b", s, re.IGNORECASE) finds a match
SearchWholeWord(phrase, s) ==
    LET p == Lower(phrase)
        l == Lower(s)
    IN  \E i \in 1..(Len(s) - Len(p) + 1) :
            /\ SubSeq(l, i, i + Len(p) - 1) = p
            /\ WordBoundary(s, i - 1)
            /\ WordBoundary(s, i + Len(p) - 1)

(***************************************************************************)
(* classify.py: the taxonomy and the keyword groups                        *)
(***************************************************************************)
BusinessMeals == <<"B","u","s","i","n","e","s","s"," ","M","e","a","l","s">>

Travel == <<"T","r","a","v","e","l">>

OfficeSupplies == <<"O","f","f","i","c","e"," ","S","u","p","p","l","i","e","s">>

Utilities == <<"U","t","i","l","i","t","i","e","s">>

HomeOffice == <<"H","o","m","e"," ","O","f","f","i","c","e">>

Advertising == <<"A","d","v","e","r","t","i","s","i","n","g">>

ProfessionalDevelopment == <<"P","r","o","f","e","s","s","i","o","n","a","l"," ","D","e","v","e","l","o","p","m","e","n","t">>

Insurance == <<"I","n","s","u","r","a","n","c","e">>

LegalProfessionalServices == <<"L","e","g","a","l"," ","&"," ","P","r","o","f","e","s","s","i","o","n","a","l"," ","S","e","r","v","i","c","e","s">>

VehicleExpenses == <<"V","e","h","i","c","l","e"," ","E","x","p","e","n","s","e","s">>

Other == <<"O","t","h","e","r">>

Uncertain == <<"U","n","c","e","r","t","a","i","n">>

\* parse_llm_output's list of valid categories, in declaration order
valid_categories ==
    << BusinessMeals,
       Travel,
       OfficeSupplies,
       Utilities,
       HomeOffice,
       Advertising,
       ProfessionalDevelopment,
       Insurance,
       LegalProfessionalServices,
       VehicleExpenses,
       Other >>

\* the fixed taxonomy of 11 categories
Taxonomy == Range(valid_categories)

meal_keywords ==
    << <<"r","e","s","t","a","u","r","a","n","t">>,
       <<"c","a","f","e">>,
       <<"c","o","f","f","e","e">>,
       <<"s","t","a","r","b","u","c","k","s">>,
       <<"m","c","d","o","n","a","l","d">>,
       <<"f","o","o","d">>,
       <<"l","u","n","c","h">>,
       <<"d","i","n","n","e","r">>,
       <<"b","r","e","a","k","f","a","s","t">>,
       <<"p","i","z","z","a">>,
       <<"d","e","l","i">> >>

travel_keywords ==
    << <<"u","b","e","r">>,
       <<"l","y","f","t">>,
       <<"t","a","x","i">>,
       <<"f","l","i","g","h","t">>,
       <<"h","o","t","e","l">>,
       <<"a","i","r","l","i","n","e">>,
       <<"a","i","r","p","o","r","t">>,
       <<"r","e","n","t","a","l"," ","c","a","r">>,
       <<"t","r","a","i","n">>,
       <<"b","u","s">> >>

office_keywords ==
    << <<"o","f","f","i","c","e"," ","d","e","p","o","t">>,
       <<"s","t","a","p","l","e","s">>,
       <<"s","u","p","p","l","i","e","s">>,
       <<"p","a","p","e","r">>,
       <<"p","e","n">>,
       <<"p","r","i","n","t","e","r">>,
       <<"i","n","k">>,
       <<"s","o","f","t","w","a","r","e">>,
       <<"c","o","m","p","u","t","e","r">>,
       <<"l","a","p","t","o","p">> >>

utility_keywords ==
    << <<"i","n","t","e","r","n","e","t">>,
       <<"p","h","o","n","e">>,
       <<"e","l","e","c","t","r","i","c">>,
       <<"u","t","i","l","i","t","y">>,
       <<"v","e","r","i","z","o","n">>,
       <<"a","t","&","t">>,
       <<"c","o","m","c","a","s","t">>,
       <<"s","p","e","c","t","r","u","m">>,
       <<"c","a","b","l","e">> >>

home_keywords ==
    << <<"r","e","n","t">>,
       <<"m","o","r","t","g","a","g","e">>,
       <<"h","o","m","e"," ","o","f","f","i","c","e">>,
       <<"w","o","r","k","s","p","a","c","e">> >>

ad_keywords ==
    << <<"a","d","v","e","r","t","i","s","i","n","g">>,
       <<"m","a","r","k","e","t","i","n","g">>,
       <<"g","o","o","g","l","e"," ","a","d","s">>,
       <<"f","a","c","e","b","o","o","k"," ","a","d","s">>,
       <<"p","r","o","m","o","t","i","o","n">> >>

dev_keywords ==
    << <<"c","o","u","r","s","e">>,
       <<"c","o","n","f","e","r","e","n","c","e">>,
       <<"b","o","o","k">>,
       <<"t","r","a","i","n","i","n","g">>,
       <<"s","e","m","i","n","a","r">>,
       <<"w","o","r","k","s","h","o","p">>,
       <<"c","e","r","t","i","f","i","c","a","t","i","o","n">> >>

legal_keywords ==
    << <<"l","e","g","a","l">>,
       <<"a","c","c","o","u","n","t","a","n","t">>,
       <<"c","o","n","s","u","l","t","a","n","t">>,
       <<"l","a","w","y","e","r">>,
       <<"a","t","t","o","r","n","e","y">>,
       <<"c","p","a">> >>

vehicle_keywords ==
    << <<"g","a","s">>,
       <<"v","e","h","i","c","l","e">>,
       <<"a","u","t","o">>,
       <<"c","a","r">>,
       <<"f","u","e","l">>,
       <<"o","i","l"," ","c","h","a","n","g","e">>,
       <<"r","e","p","a","i","r">> >>

insurance_keyword == <<"i","n","s","u","r","a","n","c","e">>

(***************************************************************************)
(* classify.py: fallback_classify and parse_llm_output                     *)
(***************************************************************************)
\* a plausible slip: the travel group tested before the meals group
fallback_classify_travel_first(text) ==
    LET t == Lower(text)
    IN  IF AnyKeywordIn(travel_keywords, t) THEN Travel
        ELSE IF AnyKeywordIn(meal_keywords, t) THEN BusinessMeals
        ELSE IF AnyKeywordIn(office_keywords, t) THEN OfficeSupplies
        ELSE IF AnyKeywordIn(utility_keywords, t) THEN Utilities
        ELSE IF AnyKeywordIn(home_keywords, t) THEN HomeOffice
        ELSE IF AnyKeywordIn(ad_keywords, t) THEN Advertising
        ELSE IF AnyKeywordIn(dev_keywords, t) THEN ProfessionalDevelopment
        ELSE IF Contains(t, insurance_keyword) THEN Insurance
        ELSE IF AnyKeywordIn(legal_keywords, t) THEN LegalProfessionalServices
        ELSE IF AnyKeywordIn(vehicle_keywords, t) THEN VehicleExpenses
        ELSE Other

\* fallback_classify(text): the cascade of keyword tests on text.lower()
fallback_classify(text) ==
    LET t == Lower(text)
    IN  IF AnyKeywordIn(meal_keywords, t) THEN BusinessMeals
        ELSE IF AnyKeywordIn(travel_keywords, t) THEN Travel
        ELSE IF AnyKeywordIn(office_keywords, t) THEN OfficeSupplies
        ELSE IF AnyKeywordIn(utility_keywords, t) THEN Utilities
        ELSE IF AnyKeywordIn(home_keywords, t) THEN HomeOffice
        ELSE IF AnyKeywordIn(ad_keywords, t) THEN Advertising
        ELSE IF AnyKeywordIn(dev_keywords, t) THEN ProfessionalDevelopment
        ELSE IF Contains(t, insurance_keyword) THEN Insurance
        ELSE IF AnyKeywordIn(legal_keywords, t) THEN LegalProfessionalServices
        ELSE IF AnyKeywordIn(vehicle_keywords, t) THEN VehicleExpenses
        ELSE Other

\* a plausible slip: the category whose phrase occurs earliest in the output
\* wins, instead of the first category in declaration order
parse_llm_output_by_position(raw_output) ==
    IF raw_output = <<>> THEN Other
    ELSE LET Starts(c) ==
                 { i \in 1..Len(raw_output) :
                     /\ i + Len(valid_categories[c]) - 1 <= Len(raw_output)
                     /\ Lower(SubSeq(raw_output, i, i + Len(valid_categories[c]) - 1))
                            = Lower(valid_categories[c])
                     /\ WordBoundary(raw_output, i - 1)
                     /\ WordBoundary(raw_output, i + Len(valid_categories[c]) - 1) }
             hits == { c \in DOMAIN valid_categories : Starts(c) # {} }
             First(c) == CHOOSE i \in Starts(c) : \A j \in Starts(c) : i <= j
         IN  IF hits = {} THEN Other
             ELSE valid_categories[
                      CHOOSE c \in hits : \A d \in hits :
                          First(c) < First(d) \/ (First(c) = First(d) /\ c <= d)]

\* a plausible slip: with no category found the raw output itself is returned
parse_llm_output_passthrough(raw_output) ==
    IF raw_output = <<>> THEN Other
    ELSE LET hits == { c \in DOMAIN valid_categories :
                          SearchWholeWord(valid_categories[c], raw_output) }
         IN  IF hits = {} THEN raw_output
             ELSE valid_categories[CHOOSE c \in hits : \A d \in hits : c <= d]

\* parse_llm_output(raw_output) for a str raw_output: the loop over
\* valid_categories returns at the first category the regex finds
parse_llm_output(raw_output) ==
    IF raw_output = <<>> THEN Other
    ELSE LET hits == { c \in DOMAIN valid_categories :
                          SearchWholeWord(valid_categories[c], raw_output) }
         IN  IF hits = {} THEN Other
             ELSE valid_categories[CHOOSE c \in hits : \A d \in hits : c <= d]

TextFragments ==
    << <<"S","t","a","r","b","u","c","k","s">>,
       <<"A","i","r","p","o","r","t">>,
       <<"U","b","e","r">>,
       <<"e","x","p","e","n","s","e">>,
       <<"p","h","o","n","e">>,
       <<"r","e","n","t">>,
       <<"m","a","r","k","e","t","i","n","g">>,
       <<"b","o","o","k">>,
       <<"i","n","s","u","r","a","n","c","e">>,
       <<"C","P","A">>,
       <<"g","a","s">>,
       <<"x","y","z">>,
       <<" ">> >>

TextStarbucksCoffee == <<"S","t","a","r","b","u","c","k","s"," ","c","o","f","f","e","e"," ","r","e","c","e","i","p","t"," ","$","4",".","5","0">>

TextUberRide == <<"U","b","e","r"," ","r","i","d","e"," ","t","o"," ","a","i","r","p","o","r","t">>

TextGibberish == <<"r","a","n","d","o","m"," ","g","i","b","b","e","r","i","s","h"," ","x","y","z">>

TextAirportStarbucks == <<"A","i","r","p","o","r","t"," ","S","t","a","r","b","u","c","k","s"," ","r","e","c","e","i","p","t">>

OutputFragments ==
    << <<"T","r","a","v","e","l">>,
       <<"o","t","h","e","r">>,
       <<"O","f","f","i","c","e"," ","S","u","p","p","l","i","e","s">>,
       <<"l","i","n","g">>,
       <<"a","n">>,
       <<".">>,
       <<" ">> >>

OutThinkOffice == <<"I"," ","t","h","i","n","k"," ","t","h","i","s"," ","i","s"," ","O","f","f","i","c","e"," ","S","u","p","p","l","i","e","s"," ","b","a","s","e","d"," ","o","n"," ","t","h","e"," ","i","t","e","m","s",".">>

OutNotSure == <<"I"," ","a","m"," ","n","o","t"," ","s","u","r","e">>

OutOtherThenTravel == <<"O","t","h","e","r"," ","t","h","a","n"," ","t","h","a","t",","," ","T","r","a","v","e","l">>

OutTravelling == <<"T","r","a","v","e","l","l","i","n","g"," ","i","n","s","u","r","a","n","c","e","s">>

OutShouting == <<"V","E","H","I","C","L","E"," ","E","X","P","E","N","S","E","S","!">>

(***************************************************************************)
(* Bounded inputs                                                          *)
(***************************************************************************)
\* receipt texts are concatenations of at most MaxFrags text fragments
MaxFrags == 2

\* raw model outputs are concatenations of at most MaxOutFrags output fragments
MaxOutFrags == 3

RECURSIVE Concats(_, _)
Concats(frags, n) ==
    IF n = 0 THEN { <<>> }
    ELSE LET prev == Concats(frags, n - 1)
         IN  prev \cup { p \o frags[i] : p \in prev, i \in DOMAIN frags }

ExampleTexts ==
    { TextStarbucksCoffee, TextUberRide, TextGibberish, TextAirportStarbucks }

Texts == Concats(TextFragments, MaxFrags) \cup ExampleTexts

\* the texts classify_expense is called with: the examples, and the
\* concatenations of the first NumReceiptFragments fragments and the blank
NumReceiptFragments == 4

ReceiptFragments ==
    SubSeq(TextFragments, 1, NumReceiptFragments) \o << TextFragments[Len(TextFragments)] >>

ReceiptTexts == Concats(ReceiptFragments, MaxFrags) \cup ExampleTexts

ExampleOutputs ==
    { OutThinkOffice, OutNotSure, OutOtherThenTravel, OutTravelling, OutShouting }

RawOutputs == Concats(OutputFragments, MaxOutFrags) \cup ExampleOutputs \cup Taxonomy

\* what chain.run hands back when it returns: a str, or some other truthy
\* object, on which re.search raises TypeError
NoResult == [kind |-> "none", val |-> <<>>]

ChainReturnValues ==
    { [kind |-> "str", val |-> o] : o \in ExampleOutputs \cup Taxonomy \cup { <<>> } }
        \cup { [kind |-> "obj", val |-> <<>>] }

(***************************************************************************)
(* State                                                                   *)
(***************************************************************************)
VARIABLES
    chain,        \* classify.chain: TRUE iff an LLMChain was built at import
    cpc,          \* position of the current classify_expense call
    text,         \* its argument
    raw_result,   \* its local raw_result
    category,     \* its return value
    runs          \* number of chain.run invocations made by the current call

classifyVars == <<chain, cpc, text, raw_result, category, runs>>

VARIABLES
    ocr_reader,       \* the global _ocr_reader: 0 is None, n > 0 the n-th Reader built
    constructed,      \* number of easyocr.Reader constructions that have succeeded
    gpc,              \* per thread: position in get_ocr_reader
    gret,             \* per thread: value get_ocr_reader returned
    opc,              \* position of the current extract_text call
    image_exists,     \* os.path.exists(image_path)
    cv_readable,      \* cv2.imread(image_path) decodes the file
    reader,           \* local reader: -1 unbound, 0 None, n > 0 a Reader
    results,          \* local results
    preprocessed_img, \* local preprocessed_img: "unbound", "cleaned", "gray", "None"
    temp_file,        \* the call's NamedTemporaryFile: "none", "exists", "deleted"
    pending,          \* outcome held while the finally clause runs
    ret,              \* value returned by extract_text
    ocr_calls,        \* reader.readtext invocations made by the current call
    preproc_calls,    \* preprocess_image invocations made by the current call
    pass1,            \* how the direct pass ended: "none", "raised", "returned"
    max1,             \* highest confidence the direct pass returned (0: no span)
    pass2             \* how the second pass ended: "none", "raised", "returned"

getVars == <<ocr_reader, constructed, gpc, gret>>

extractVars ==
    <<opc, image_exists, cv_readable, reader, results, preprocessed_img, temp_file,
      pending, ret, ocr_calls, preproc_calls, pass1, max1, pass2>>

ocrVars == <<getVars, extractVars>>

VARIABLES
    now,      \* the wall clock datetime.now() reads, in ticks
    files,    \* the temporary directory: receipt path -> request whose upload it holds
    handler   \* per request: position in classify() and its locals

appVars == <<now, files, handler>>

vars == <<classifyVars, ocrVars, appVars>>

\* classify.py at import: chain is an LLMChain when ChatOllama could be
\* constructed, None otherwise
InitClassify ==
    /\ chain \in BOOLEAN
    /\ cpc = "idle"
    /\ text = <<>>
    /\ raw_result = NoResult
    /\ category = <<>>
    /\ runs = 0

(***************************************************************************)
(* classify.py: classify_expense                                           *)
(***************************************************************************)
\* "not text or not text.strip()"
IsBlank(t) == t = <<>> \/ Strip(t) = <<>>

\* what classify_expense returns for blank text when a chain is configured
empty_text_result == Uncertain

\* a plausible slip: the handler returns the default instead of the keyword result
except_handler_default(t) == Other

\* the except clause of classify_expense
except_handler(t) == fallback_classify(t)

\* classify_expense(text) is entered
Call(t) ==
    /\ cpc = "idle"
    /\ cpc' = "called"
    /\ text' = t
    /\ raw_result' = NoResult
    /\ category' = <<>>
    /\ runs' = 0
    /\ UNCHANGED chain
    /\ UNCHANGED <<ocrVars, appVars>>

\* "if not chain: return fallback_classify(text)"
NoChain ==
    /\ cpc = "called"
    /\ ~chain
    /\ category' = fallback_classify(text)
    /\ cpc' = "returned"
    /\ UNCHANGED <<chain, text, raw_result, runs>>
    /\ UNCHANGED <<ocrVars, appVars>>

\* "if not text or not text.strip(): return ..."
EmptyText ==
    /\ cpc = "called"
    /\ chain
    /\ IsBlank(text)
    /\ category' = empty_text_result
    /\ cpc' = "returned"
    /\ UNCHANGED <<chain, text, raw_result, runs>>
    /\ UNCHANGED <<ocrVars, appVars>>

\* the try block is entered and chain.run({"text": text}) is invoked
RunChain ==
    /\ cpc = "called"
    /\ chain
    /\ ~IsBlank(text)
    /\ runs' = runs + 1
    /\ cpc' = "running"
    /\ UNCHANGED <<chain, text, raw_result, category>>
    /\ UNCHANGED <<ocrVars, appVars>>

\* chain.run returns v
ChainReturns(v) ==
    /\ cpc = "running"
    /\ raw_result' = v
    /\ cpc' = "parsing"
    /\ UNCHANGED <<chain, text, category, runs>>
    /\ UNCHANGED <<ocrVars, appVars>>

\* chain.run raises
ChainRaises ==
    /\ cpc = "running"
    /\ cpc' = "except"
    /\ UNCHANGED <<chain, text, raw_result, category, runs>>
    /\ UNCHANGED <<ocrVars, appVars>>

\* parse_llm_output(raw_result) fails inside re.search
ParseRaises(v) == v.kind = "obj"

\* "cleaned_result = parse_llm_output(raw_result); return cleaned_result"
\* or, when parsing raises, control passes to the except clause
Parse ==
    /\ cpc = "parsing"
    /\ IF ParseRaises(raw_result)
       THEN /\ cpc' = "except"
            /\ UNCHANGED category
       ELSE /\ category' = parse_llm_output(raw_result.val)
            /\ cpc' = "returned"
    /\ UNCHANGED <<chain, text, raw_result, runs>>
    /\ UNCHANGED <<ocrVars, appVars>>

\* a plausible slip: the handler runs the chain once more before giving up
Except_retries ==
    /\ cpc = "except"
    /\ IF runs < 2
       THEN /\ runs' = runs + 1
            /\ cpc' = "running"
            /\ UNCHANGED category
       ELSE /\ category' = except_handler(text)
            /\ cpc' = "returned"
            /\ UNCHANGED runs
    /\ UNCHANGED <<chain, text, raw_result>>
    /\ UNCHANGED <<ocrVars, appVars>>

\* "except Exception: return fallback_classify(text)"
Except ==
    /\ cpc = "except"
    /\ category' = except_handler(text)
    /\ cpc' = "returned"
    /\ UNCHANGED <<chain, text, raw_result, runs>>
    /\ UNCHANGED <<ocrVars, appVars>>

\* the caller takes the result; the call's frame is gone
Return ==
    /\ cpc = "returned"
    /\ cpc' = "idle"
    /\ text' = <<>>
    /\ raw_result' = NoResult
    /\ category' = <<>>
    /\ runs' = 0
    /\ UNCHANGED chain
    /\ UNCHANGED <<ocrVars, appVars>>

\* fallback_classify called on its own
FallbackCall(t) ==
    /\ cpc = "idle"
    /\ text' = t
    /\ category' = fallback_classify(t)
    /\ cpc' = "returned"
    /\ UNCHANGED <<chain, raw_result, runs>>
    /\ UNCHANGED <<ocrVars, appVars>>

\* parse_llm_output called on its own with the str o
ParseCall(o) ==
    /\ cpc = "idle"
    /\ raw_result' = [kind |-> "str", val |-> o]
    /\ category' = parse_llm_output(o)
    /\ cpc' = "returned"
    /\ UNCHANGED <<chain, text, runs>>
    /\ UNCHANGED <<ocrVars, appVars>>

(***************************************************************************)
(* ocr.py: clean_extracted_text                                            *)
(***************************************************************************)
NL == "\n"

\* text.split('\n')
RECURSIVE SplitLines(_)
SplitLines(s) ==
    IF \A i \in DOMAIN s : s[i] # NL THEN << s >>
    ELSE LET i == CHOOSE k \in DOMAIN s : s[k] = NL /\ \A j \in 1..(k - 1) : s[j] # NL
         IN  << SubSeq(s, 1, i - 1) >> \o SplitLines(SubSeq(s, i + 1, Len(s)))

\* sep.join(parts)
RECURSIVE Join(_, _)
Join(parts, sep) ==
    IF parts = <<>> THEN <<>>
    ELSE IF Len(parts) = 1 THEN parts[1]
    ELSE parts[1] \o sep \o Join(Tail(parts), sep)

\* [f(x) for x in s]
StripAll(lines) == [i \in DOMAIN lines |-> Strip(lines[i])]

NonBlank(line) == Strip(line) # <<>>

\* "len(line.strip()) >= 2"
MinLineLen == 2

LongEnough(line) == Len(Strip(line)) >= MinLineLen

\* a plausible slip: lines are filtered but kept unstripped
clean_extracted_text_unstripped(t) ==
    IF t = <<>> THEN <<>>
    ELSE Join(SelectSeq(SelectSeq(SplitLines(t), NonBlank), LongEnough), << NL >>)

\* clean_extracted_text(text)
clean_extracted_text(t) ==
    IF t = <<>> THEN <<>>
    ELSE LET lines  == StripAll(SelectSeq(SplitLines(t), NonBlank))
             lines2 == SelectSeq(lines, LongEnough)
         IN  Strip(Join(lines2, << NL >>))

SpanTexts ==
    << <<"a","b">>,
       <<"a">>,
       <<" ","c","d"," ","\n"," ","e">> >>

(***************************************************************************)
(* ocr.py: inputs                                                          *)
(***************************************************************************)
\* reader.readtext returns at most MaxSpans spans
MaxSpans == 2

\* concurrent callers of get_ocr_reader
NumThreads == 2

\* easyocr.Reader objects constructed in one run of the process
MaxReaders == 2

\* confidences in hundredths: 0.3, 0.5 (the two thresholds themselves) and 0.6
Confidences == {30, 50, 60}

\* "confidence > 0.5", in hundredths
DirectThreshold == 50

\* "confidence > 0.3", in hundredths
PreprocessedThreshold == 30

\* a span (bbox, text, confidence); the bounding box is never read
Spans == { [text |-> SpanTexts[i], conf |-> c] : i \in DOMAIN SpanTexts, c \in Confidences }

RECURSIVE SeqsUpTo(_, _)
SeqsUpTo(S, n) ==
    IF n = 0 THEN { <<>> }
    ELSE LET prev == SeqsUpTo(S, n - 1)
         IN  prev \cup { Append(p, x) : p \in prev, x \in S }

\* what reader.readtext can return
ReadResults == SeqsUpTo(Spans, MaxSpans)

Threads == 1..NumThreads

(***************************************************************************)
(* ocr.py: initial state                                                   *)
(***************************************************************************)
\* ocr.py at import: "_ocr_reader = None"; no call is in progress
InitOcr ==
    /\ ocr_reader = 0
    /\ constructed = 0
    /\ gpc = [t \in Threads |-> "idle"]
    /\ gret = [t \in Threads |-> 0]
    /\ opc = "idle"
    /\ image_exists = FALSE
    /\ cv_readable = FALSE
    /\ reader = -1
    /\ results = <<>>
    /\ preprocessed_img = "unbound"
    /\ temp_file = "none"
    /\ pending = "none"
    /\ ret = <<>>
    /\ ocr_calls = 0
    /\ preproc_calls = 0
    /\ pass1 = "none"
    /\ max1 = 0
    /\ pass2 = "none"

(***************************************************************************)
(* app.py: bounded inputs and initial state                                *)
(***************************************************************************)
\* /classify requests the server handles, concurrently when threaded
NumRequests == 2

\* the clock runs through ticks 0..MaxClock
MaxClock == 2

\* clock ticks in one second, the resolution of '%Y%m%d_%H%M%S'
TicksPerSecond == 2

Requests == 1..NumRequests

\* request.files: no 'image' part, or an upload with a client-chosen filename
NoUpload == [has |-> FALSE, filename |-> <<>>]

Upload(f) == [has |-> TRUE, filename |-> f]

\* "", "notes.txt", "receipt", "r.png", "a b.GIF" and "a_b.GIF"
Uploads ==
    { NoUpload, Upload(<<>>),
      Upload(<<"n","o","t","e","s",".","t","x","t">>),
      Upload(<<"r","e","c","e","i","p","t">>),
      Upload(<<"r",".","p","n","g">>),
      Upload(<<"a"," ","b",".","G","I","F">>),
      Upload(<<"a","_","b",".","G","I","F">>) }

\* the uploads of the concurrent requests: "notes.txt" and "r.png"
ConcurrentUploads == { Upload(<<"n","o","t","e","s",".","t","x","t">>), Upload(<<"r",".","p","n","g">>) }

NoPath == [stamp |-> -1, name |-> <<>>]

NoResponse == [status |-> 0, error |-> "none", category |-> <<>>]

\* a request that has not arrived yet
IdleHandler ==
    [pc |-> "idle", file |-> NoUpload, temp_path |-> NoPath,
     extracted_text |-> <<>>, category |-> <<>>, response |-> NoResponse]

\* the server is up, the temporary directory holds no receipt
InitApp ==
    /\ now = 0
    /\ files = <<>>
    /\ handler = [r \in Requests |-> IdleHandler]

Init == InitClassify /\ InitOcr /\ InitApp

(***************************************************************************)
(* ocr.py: get_ocr_reader                                                  *)
(***************************************************************************)
\* a caller (check_ocr_availability, or a request's extract_text) enters
\* get_ocr_reader
GetReaderCall(t) ==
    /\ gpc[t] = "idle"
    /\ gpc' = [gpc EXCEPT ![t] = "check"]
    /\ UNCHANGED <<ocr_reader, constructed, gret>>

\* "if _ocr_reader is None:" reads the global
ReaderCheck(t) ==
    /\ gpc[t] = "check"
    /\ gpc' = [gpc EXCEPT ![t] = IF ocr_reader = 0 THEN "construct" ELSE "return"]
    /\ UNCHANGED <<ocr_reader, constructed, gret>>

\* "_ocr_reader = easyocr.Reader(['en'])": the constructor completes and the
\* new object is stored in the global
InitSucceeds(t) ==
    /\ gpc[t] = "construct"
    /\ constructed < MaxReaders
    /\ constructed' = constructed + 1
    /\ ocr_reader' = constructed + 1
    /\ gpc' = [gpc EXCEPT ![t] = "return"]
    /\ UNCHANGED gret

\* the constructor raises: "except Exception: _ocr_reader = None"
InitFails(t) ==
    /\ gpc[t] = "construct"
    /\ ocr_reader' = 0
    /\ gpc' = [gpc EXCEPT ![t] = "return"]
    /\ UNCHANGED <<constructed, gret>>

\* "return _ocr_reader" reads the global again
ReaderReturn(t) ==
    /\ gpc[t] = "return"
    /\ gret' = [gret EXCEPT ![t] = ocr_reader]
    /\ gpc' = [gpc EXCEPT ![t] = "done"]
    /\ UNCHANGED <<ocr_reader, constructed>>

\* the caller has the handle; the frame is gone
GetReaderDone(t) ==
    /\ gpc[t] = "done"
    /\ gpc' = [gpc EXCEPT ![t] = "idle"]
    /\ gret' = [gret EXCEPT ![t] = 0]
    /\ UNCHANGED <<ocr_reader, constructed>>

(***************************************************************************)
(* ocr.py: extract_text                                                    *)
(***************************************************************************)
\* the caller of get_ocr_reader inside extract_text
Caller == 1

RECURSIVE TextsOf(_)
TextsOf(spans) ==
    IF spans = <<>> THEN <<>> ELSE << Head(spans).text >> \o TextsOf(Tail(spans))

AboveDirect(span) == span.conf > DirectThreshold

AbovePreprocessed(span) == span.conf > PreprocessedThreshold

\* a plausible slip: ">=" for ">" on the first pass
direct_texts_inclusive(res) ==
    TextsOf(SelectSeq(res, LAMBDA s : s.conf >= DirectThreshold))

\* extracted_texts of the first pass: the texts with confidence > 0.5
direct_texts(res) == TextsOf(SelectSeq(res, AboveDirect))

\* a plausible slip: ">=" for ">" on the second pass
preprocessed_texts_inclusive(res) ==
    TextsOf(SelectSeq(res, LAMBDA s : s.conf >= PreprocessedThreshold))

\* a plausible slip: the first pass's threshold reused on the second pass
preprocessed_texts_strict(res) == TextsOf(SelectSeq(res, AboveDirect))

\* extracted_texts of the second pass: the texts with confidence > 0.3
preprocessed_texts(res) == TextsOf(SelectSeq(res, AbovePreprocessed))

\* ' '.join(extracted_texts)
full_text(texts) == Join(texts, << " " >>)

\* a plausible slip: the guard on the reader is missing
reader_unavailable_unchecked(r) == FALSE

\* "if reader is None: raise"
reader_unavailable(r) == r = 0

MaxConf(res) ==
    IF res = <<>> THEN 0
    ELSE CHOOSE c \in { res[i].conf : i \in DOMAIN res } :
             \A i \in DOMAIN res : res[i].conf <= c

\* extract_text(image_path) is entered; the file it names exists or not, and
\* OpenCV can decode it or not
ExtractCall(exists, readable) ==
    /\ opc = "idle"
    /\ opc' = "called"
    /\ image_exists' = exists
    /\ cv_readable' = (exists /\ readable)
    /\ reader' = -1
    /\ results' = <<>>
    /\ preprocessed_img' = "unbound"
    /\ temp_file' = "none"
    /\ pending' = "none"
    /\ ret' = <<>>
    /\ ocr_calls' = 0
    /\ preproc_calls' = 0
    /\ pass1' = "none"
    /\ max1' = 0
    /\ pass2' = "none"
    /\ UNCHANGED <<getVars, classifyVars, appVars>>

\* "if not os.path.exists(image_path): raise FileNotFoundError", which the
\* outer handler re-raises as Exception
FileMissing ==
    /\ opc = "called"
    /\ ~image_exists
    /\ opc' = "raised"
    /\ UNCHANGED <<image_exists, cv_readable, reader, results, preprocessed_img,
                   temp_file, pending, ret, ocr_calls, preproc_calls, pass1, max1, pass2>>
    /\ UNCHANGED <<getVars, classifyVars, appVars>>

\* "reader = get_ocr_reader()" is called
GetReader ==
    /\ opc = "called"
    /\ image_exists
    /\ gpc[Caller] = "idle"
    /\ opc' = "getreader"
    /\ gpc' = [gpc EXCEPT ![Caller] = "check"]
    /\ UNCHANGED <<ocr_reader, constructed, gret>>
    /\ UNCHANGED <<image_exists, cv_readable, reader, results, preprocessed_img,
                   temp_file, pending, ret, ocr_calls, preproc_calls, pass1, max1, pass2>>
    /\ UNCHANGED <<classifyVars, appVars>>

\* get_ocr_reader has returned: reader is bound; "if reader is None: raise",
\* which the outer handler re-raises
ReaderBound ==
    /\ opc = "getreader"
    /\ gpc[Caller] = "done"
    /\ reader' = gret[Caller]
    /\ opc' = IF reader_unavailable(gret[Caller]) THEN "raised" ELSE "pass1"
    /\ gpc' = [gpc EXCEPT ![Caller] = "idle"]
    /\ gret' = [gret EXCEPT ![Caller] = 0]
    /\ UNCHANGED <<ocr_reader, constructed>>
    /\ UNCHANGED <<image_exists, cv_readable, results, preprocessed_img,
                   temp_file, pending, ret, ocr_calls, preproc_calls, pass1, max1, pass2>>
    /\ UNCHANGED <<classifyVars, appVars>>

\* "results = reader.readtext(image_path)" returns res; with a span above the
\* threshold the cleaned join is returned, otherwise control falls through
Pass1Returns(res) ==
    /\ opc = "pass1"
    /\ reader > 0
    /\ results' = res
    /\ ocr_calls' = ocr_calls + 1
    /\ pass1' = "returned"
    /\ max1' = MaxConf(res)
    /\ IF res # <<>> /\ direct_texts(res) # <<>>
       THEN /\ ret' = clean_extracted_text(full_text(direct_texts(res)))
            /\ opc' = "returned"
       ELSE /\ opc' = "fallback"
            /\ UNCHANGED ret
    /\ UNCHANGED <<image_exists, cv_readable, reader, preprocessed_img,
                   temp_file, pending, preproc_calls, pass2>>
    /\ UNCHANGED <<getVars, classifyVars, appVars>>

\* a plausible slip: the first pass has no handler of its own, so its
\* exception reaches the outer handler
Pass1Raises_propagates ==
    /\ opc = "pass1"
    /\ ocr_calls' = ocr_calls + 1
    /\ pass1' = "raised"
    /\ opc' = "raised"
    /\ UNCHANGED <<image_exists, cv_readable, reader, results, preprocessed_img,
                   temp_file, pending, ret, preproc_calls, max1, pass2>>
    /\ UNCHANGED <<getVars, classifyVars, appVars>>

\* reader.readtext(image_path) raises (always so when reader is None):
\* "except Exception" logs it and control falls through
Pass1Raises ==
    /\ opc = "pass1"
    /\ ocr_calls' = ocr_calls + 1
    /\ pass1' = "raised"
    /\ opc' = "fallback"
    /\ UNCHANGED <<image_exists, cv_readable, reader, results, preprocessed_img,
                   temp_file, pending, ret, preproc_calls, max1, pass2>>
    /\ UNCHANGED <<getVars, classifyVars, appVars>>

\* preprocess_image(image_path): the enhanced image; when a step raises, the
\* handler's cv2.imread(image_path, cv2.IMREAD_GRAYSCALE), which is None for a
\* file OpenCV cannot decode
preprocess_image(readable, step_fails) ==
    IF readable /\ ~step_fails THEN "cleaned"
    ELSE IF readable THEN "gray"
    ELSE "None"

\* "preprocessed_img = preprocess_image(image_path)"
Preprocess(step_fails) ==
    /\ opc = "fallback"
    /\ preproc_calls' = preproc_calls + 1
    /\ preprocessed_img' = preprocess_image(cv_readable, step_fails)
    /\ opc' = "tempfile"
    /\ UNCHANGED <<image_exists, cv_readable, reader, results, temp_file, pending,
                   ret, ocr_calls, pass1, max1, pass2>>
    /\ UNCHANGED <<getVars, classifyVars, appVars>>

\* "with tempfile.NamedTemporaryFile(suffix='.png', delete=False)": the file
\* is created, or creating it raises, which both handlers re-raise
TempFileCreate(ok) ==
    /\ opc = "tempfile"
    /\ IF ok
       THEN /\ temp_file' = "exists"
            /\ opc' = "imwrite"
       ELSE /\ opc' = "raised"
            /\ UNCHANGED temp_file
    /\ UNCHANGED <<image_exists, cv_readable, reader, results, preprocessed_img,
                   pending, ret, ocr_calls, preproc_calls, pass1, max1, pass2>>
    /\ UNCHANGED <<getVars, classifyVars, appVars>>

\* "cv2.imwrite(temp_file.name, preprocessed_img)": raises cv2.error for None,
\* before the try/finally that unlinks the file is entered
ImWrite ==
    /\ opc = "imwrite"
    /\ opc' = IF preprocessed_img = "None" THEN "raised" ELSE "pass2"
    /\ UNCHANGED <<image_exists, cv_readable, reader, results, preprocessed_img,
                   temp_file, pending, ret, ocr_calls, preproc_calls, pass1, max1, pass2>>
    /\ UNCHANGED <<getVars, classifyVars, appVars>>

\* "results = reader.readtext(temp_path)" returns res: the cleaned join of the
\* spans above the lower threshold, or "" when there is none; the finally
\* clause runs before the value is handed back
Pass2Returns(res) ==
    /\ opc = "pass2"
    /\ reader > 0
    /\ results' = res
    /\ ocr_calls' = ocr_calls + 1
    /\ pass2' = "returned"
    /\ ret' = IF res # <<>> /\ preprocessed_texts(res) # <<>>
              THEN clean_extracted_text(full_text(preprocessed_texts(res)))
              ELSE <<>>
    /\ pending' = "returned"
    /\ opc' = "cleanup"
    /\ UNCHANGED <<image_exists, cv_readable, reader, preprocessed_img, temp_file,
                   preproc_calls, pass1, max1>>
    /\ UNCHANGED <<getVars, classifyVars, appVars>>

\* reader.readtext(temp_path) raises: the finally clause runs, then both
\* handlers re-raise
Pass2Raises ==
    /\ opc = "pass2"
    /\ ocr_calls' = ocr_calls + 1
    /\ pass2' = "raised"
    /\ pending' = "raised"
    /\ opc' = "cleanup"
    /\ UNCHANGED <<image_exists, cv_readable, reader, results, preprocessed_img,
                   temp_file, ret, preproc_calls, pass1, max1>>
    /\ UNCHANGED <<getVars, classifyVars, appVars>>

\* "finally: os.unlink(temp_path)", whose own failure is caught and logged
Cleanup(unlink_ok) ==
    /\ opc = "cleanup"
    /\ temp_file' = IF unlink_ok THEN "deleted" ELSE temp_file
    /\ opc' = pending
    /\ pending' = "none"
    /\ UNCHANGED <<image_exists, cv_readable, reader, results, preprocessed_img,
                   ret, ocr_calls, preproc_calls, pass1, max1, pass2>>
    /\ UNCHANGED <<getVars, classifyVars, appVars>>

\* the caller has the result or the exception; the frame is gone
ExtractReturn ==
    /\ opc \in {"returned", "raised"}
    /\ opc' = "idle"
    /\ image_exists' = FALSE
    /\ cv_readable' = FALSE
    /\ reader' = -1
    /\ results' = <<>>
    /\ preprocessed_img' = "unbound"
    /\ temp_file' = "none"
    /\ pending' = "none"
    /\ ret' = <<>>
    /\ ocr_calls' = 0
    /\ preproc_calls' = 0
    /\ pass1' = "none"
    /\ max1' = 0
    /\ pass2' = "none"
    /\ UNCHANGED <<getVars, classifyVars, appVars>>

(***************************************************************************)
(* app.py: the /classify handler                                           *)
(***************************************************************************)
ALLOWED_EXTENSIONS ==
    { <<"p","n","g">>, <<"j","p","g">>, <<"j","p","e","g">>, <<"g","i","f">>,
      <<"b","m","p">>, <<"t","i","f","f">> }

\* filename.rsplit('.', 1)[1], for a filename that holds a '.'
Extension(f) ==
    LET dot == CHOOSE i \in DOMAIN f : f[i] = "." /\ \A j \in (i + 1)..Len(f) : f[j] # "."
    IN  SubSeq(f, dot + 1, Len(f))

\* "'.' in filename and filename.rsplit('.', 1)[1].lower() in ALLOWED_EXTENSIONS"
allowed_file(f) ==
    /\ \E i \in DOMAIN f : f[i] = "."
    /\ Lower(Extension(f)) \in ALLOWED_EXTENSIONS

\* "_".join(filename.split())
RECURSIVE JoinWords(_)
JoinWords(s) ==
    IF s = <<>> THEN <<>>
    ELSE IF Head(s) \notin Whitespace THEN << Head(s) >> \o JoinWords(Tail(s))
    ELSE IF Tail(s) # <<>> /\ Head(Tail(s)) \in Whitespace THEN JoinWords(Tail(s))
    ELSE << "_" >> \o JoinWords(Tail(s))

\* the characters werkzeug's _filename_ascii_strip_re keeps
IsFilenameChar(c) == IsWordChar(c) \/ c \in {".", "-"}

\* str.strip("._")
RECURSIVE StripDots(_)
StripDots(s) ==
    IF s # <<>> /\ Head(s) \in {".", "_"} THEN StripDots(Tail(s))
    ELSE IF s # <<>> /\ s[Len(s)] \in {".", "_"} THEN StripDots(SubSeq(s, 1, Len(s) - 1))
    ELSE s

\* werkzeug.utils.secure_filename: path separators become blanks, runs of
\* white space become "_", other characters are dropped, "." and "_" are
\* stripped from both ends
secure_filename(f) ==
    LET flat == [i \in DOMAIN f |-> IF f[i] = "/" THEN " " ELSE f[i]]
    IN  StripDots(SelectSeq(JoinWords(Strip(flat)), IsFilenameChar))

\* datetime.now().strftime('%Y%m%d_%H%M%S'): the clock cut to whole seconds
strftime(n) == n \div TicksPerSecond

\* os.path.join(temp_dir, f"receipt_{...strftime(...)}_{filename}")
receipt_path(n, f) == [stamp |-> strftime(n), name |-> secure_filename(f)]

\* os.path.exists(p)
Exists(p) == p \in DOMAIN files

\* the directory after request r's upload is written to p
Written(p, r) == [q \in DOMAIN files \cup {p} |-> IF q = p THEN r ELSE files[q]]

\* the directory after p is removed
Removed(p) == [q \in DOMAIN files \ {p} |-> files[q]]

\* what a call made by the handler does: it raises, or it returns a str
Raised == [kind |-> "raise", val |-> <<>>]

Returned(s) == [kind |-> "str", val |-> s]

\* the texts extract_text can return: cleaned text, or "" when no span qualifies
ExtractedTexts == { clean_extracted_text(t) : t \in ReceiptTexts } \cup { <<>> }

OcrOutcomes == { Returned(t) : t \in ExtractedTexts } \cup { Raised }

ChainOutcomes == ChainReturnValues \cup { Raised }

\* the outcomes the concurrent requests draw from
ConcurrentOcrOutcomes == { Raised, Returned(<<>>), Returned(TextUberRide) }

ConcurrentChainOutcomes == { Raised, Returned(OfficeSupplies) }

\* classify_expense(t) as the handler sees it, o being what chain.run does
\* when it is invoked
classify_expense(t, o) ==
    IF ~chain THEN fallback_classify(t)
    ELSE IF IsBlank(t) THEN empty_text_result
    ELSE IF o = Raised \/ ParseRaises(o) THEN except_handler(t)
    ELSE parse_llm_output(o.val)

\* a plausible slip: the handler passes blank text on to the classifier
no_text_extracted_unchecked(t) == FALSE

\* "if not extracted_text.strip()"
no_text_extracted(t) == Strip(t) = <<>>

\* "return jsonify({"error": ...}), status"
ErrorResponse(h, status, error) ==
    [h EXCEPT !.pc = "responded",
              !.response = [status |-> status, error |-> error, category |-> <<>>]]

\* Step 1 validates the request; Step 2 computes temp_path from the clock
\* and the secured filename
Validate(r, u) ==
    /\ handler[r].pc = "idle"
    /\ handler' = [handler EXCEPT ![r] =
           IF ~u.has
           THEN ErrorResponse([@ EXCEPT !.file = u], 400, "No image file provided")
           ELSE IF u.filename = <<>>
           THEN ErrorResponse([@ EXCEPT !.file = u], 400, "No file selected")
           ELSE IF ~allowed_file(u.filename)
           THEN ErrorResponse([@ EXCEPT !.file = u], 400, "Invalid file type")
           ELSE [@ EXCEPT !.pc = "save", !.file = u,
                          !.temp_path = receipt_path(now, u.filename)]]
    /\ UNCHANGED <<now, files>>
    /\ UNCHANGED <<classifyVars, ocrVars>>

\* "file.save(temp_path)", which creates or overwrites the file
Save(r, ok) ==
    /\ handler[r].pc = "save"
    /\ IF ok
       THEN /\ files' = Written(handler[r].temp_path, r)
            /\ handler' = [handler EXCEPT ![r].pc = "ocr"]
       ELSE /\ handler' = [handler EXCEPT ![r] =
                   ErrorResponse(@, 500, "Failed to save uploaded image")]
            /\ UNCHANGED files
    /\ UNCHANGED now
    /\ UNCHANGED <<classifyVars, ocrVars>>

\* Step 3: extract_text(temp_path) is entered; it raises at once when the
\* file is not there
OcrStart(r) ==
    /\ handler[r].pc = "ocr"
    /\ handler' = [handler EXCEPT ![r] =
           IF Exists(handler[r].temp_path)
           THEN [@ EXCEPT !.pc = "in_ocr"]
           ELSE ErrorResponse(@, 500, "Text extraction failed")]
    /\ UNCHANGED <<now, files>>
    /\ UNCHANGED <<classifyVars, ocrVars>>

\* extract_text raises or returns; blank text is answered with 400
OcrEnds(r, o) ==
    /\ handler[r].pc = "in_ocr"
    /\ handler' = [handler EXCEPT ![r] =
           IF o = Raised
           THEN ErrorResponse(@, 500, "Text extraction failed")
           ELSE IF no_text_extracted(o.val)
           THEN ErrorResponse([@ EXCEPT !.extracted_text = o.val], 400,
                              "No text could be extracted from the image")
           ELSE [@ EXCEPT !.pc = "classify", !.extracted_text = o.val]]
    /\ UNCHANGED <<now, files>>
    /\ UNCHANGED <<classifyVars, ocrVars>>

\* Step 4: "category = classify_expense(extracted_text)"
ClassifyExpense(r, o) ==
    /\ handler[r].pc = "classify"
    /\ handler' = [handler EXCEPT ![r] =
           [@ EXCEPT !.pc = "cleanup",
                     !.category = classify_expense(handler[r].extracted_text, o)]]
    /\ UNCHANGED <<now, files>>
    /\ UNCHANGED <<classifyVars, ocrVars>>

\* Step 5: "os.remove(temp_path)"; a failure is logged and ignored
RemoveTempFile(r, ok) ==
    /\ handler[r].pc = "cleanup"
    /\ files' = IF ok /\ Exists(handler[r].temp_path)
                THEN Removed(handler[r].temp_path)
                ELSE files
    /\ handler' = [handler EXCEPT ![r].pc = "results"]
    /\ UNCHANGED now
    /\ UNCHANGED <<classifyVars, ocrVars>>

\* Step 6: "return jsonify(response_data)"
ReturnResults(r) ==
    /\ handler[r].pc = "results"
    /\ handler' = [handler EXCEPT ![r] =
           [@ EXCEPT !.pc = "responded",
                     !.response = [status |-> 200, error |-> "none",
                                   category |-> handler[r].category]]]
    /\ UNCHANGED <<now, files>>
    /\ UNCHANGED <<classifyVars, ocrVars>>

\* time passes
Tick ==
    /\ now < MaxClock
    /\ now' = now + 1
    /\ UNCHANGED <<files, handler>>
    /\ UNCHANGED <<classifyVars, ocrVars>>

(***************************************************************************)
(* Specifications                                                          *)
(***************************************************************************)
CallAny == \E t \in ReceiptTexts : Call(t)

ChainReturnsAny == \E v \in ChainReturnValues : ChainReturns(v)

\* classify_expense, called again and again
NextClassify ==
    \/ CallAny
    \/ NoChain
    \/ EmptyText
    \/ RunChain
    \/ ChainReturnsAny
    \/ ChainRaises
    \/ Parse
    \/ Except
    \/ Return

SpecClassify == Init /\ [][NextClassify]_vars

FallbackCallAny == \E t \in Texts : FallbackCall(t)

\* fallback_classify on every bounded text
NextFallback ==
    \/ FallbackCallAny
    \/ Return

SpecFallback == Init /\ [][NextFallback]_vars

ParseCallAny == \E o \in RawOutputs : ParseCall(o)

\* parse_llm_output on every bounded raw output
NextParse ==
    \/ ParseCallAny
    \/ Return

SpecParse == Init /\ [][NextParse]_vars

ExtractCallAny == \E e \in BOOLEAN, r \in BOOLEAN : ExtractCall(e, r)

CallerReaderCheck == ReaderCheck(Caller) /\ UNCHANGED <<extractVars, classifyVars, appVars>>

CallerInitSucceeds == InitSucceeds(Caller) /\ UNCHANGED <<extractVars, classifyVars, appVars>>

CallerInitFails == InitFails(Caller) /\ UNCHANGED <<extractVars, classifyVars, appVars>>

CallerReaderReturn == ReaderReturn(Caller) /\ UNCHANGED <<extractVars, classifyVars, appVars>>

Pass1ReturnsAny == \E res \in ReadResults : Pass1Returns(res)

PreprocessAny == \E f \in BOOLEAN : Preprocess(f)

TempFileCreateAny == \E ok \in BOOLEAN : TempFileCreate(ok)

Pass2ReturnsAny == \E res \in ReadResults : Pass2Returns(res)

CleanupAny == \E ok \in BOOLEAN : Cleanup(ok)

\* extract_text, called again and again by one request at a time
NextExtract ==
    \/ ExtractCallAny
    \/ FileMissing
    \/ GetReader
    \/ CallerReaderCheck
    \/ CallerInitSucceeds
    \/ CallerInitFails
    \/ CallerReaderReturn
    \/ ReaderBound
    \/ Pass1ReturnsAny
    \/ Pass1Raises
    \/ PreprocessAny
    \/ TempFileCreateAny
    \/ ImWrite
    \/ Pass2ReturnsAny
    \/ Pass2Raises
    \/ CleanupAny
    \/ ExtractReturn

SpecExtract == Init /\ [][NextExtract]_vars

ThreadGetReaderCall == \E t \in Threads : GetReaderCall(t) /\ UNCHANGED <<extractVars, classifyVars, appVars>>

ThreadReaderCheck == \E t \in Threads : ReaderCheck(t) /\ UNCHANGED <<extractVars, classifyVars, appVars>>

ThreadInitSucceeds == \E t \in Threads : InitSucceeds(t) /\ UNCHANGED <<extractVars, classifyVars, appVars>>

ThreadInitFails == \E t \in Threads : InitFails(t) /\ UNCHANGED <<extractVars, classifyVars, appVars>>

ThreadReaderReturn == \E t \in Threads : ReaderReturn(t) /\ UNCHANGED <<extractVars, classifyVars, appVars>>

ThreadGetReaderDone == \E t \in Threads : GetReaderDone(t) /\ UNCHANGED <<extractVars, classifyVars, appVars>>

\* get_ocr_reader called from concurrent request threads
NextGetReader ==
    \/ ThreadGetReaderCall
    \/ ThreadReaderCheck
    \/ ThreadInitSucceeds
    \/ ThreadInitFails
    \/ ThreadReaderReturn
    \/ ThreadGetReaderDone

SpecGetReader == Init /\ [][NextGetReader]_vars

\* one /classify request, over every upload, OCR outcome and chain outcome
NextPipeline ==
    \/ \E u \in Uploads : Validate(1, u)
    \/ \E ok \in BOOLEAN : Save(1, ok)
    \/ OcrStart(1)
    \/ \E o \in OcrOutcomes : OcrEnds(1, o)
    \/ \E o \in ChainOutcomes : ClassifyExpense(1, o)
    \/ \E ok \in BOOLEAN : RemoveTempFile(1, ok)
    \/ ReturnResults(1)

SpecPipeline == Init /\ [][NextPipeline]_vars

\* /classify requests handled by concurrent threads while the clock runs
NextApp ==
    \/ \E r \in Requests, u \in ConcurrentUploads : Validate(r, u)
    \/ \E r \in Requests, ok \in BOOLEAN : Save(r, ok)
    \/ \E r \in Requests : OcrStart(r)
    \/ \E r \in Requests, o \in ConcurrentOcrOutcomes : OcrEnds(r, o)
    \/ \E r \in Requests, o \in ConcurrentChainOutcomes : ClassifyExpense(r, o)
    \/ \E r \in Requests, ok \in BOOLEAN : RemoveTempFile(r, ok)
    \/ \E r \in Requests : ReturnResults(r)
    \/ Tick

SpecApp == Init /\ [][NextApp]_vars

(***************************************************************************)
(* Properties of classify.py                                               *)
(***************************************************************************)
\* C1: every value classify_expense returns is one of the 11 taxonomy
\* members, whatever the text and whatever the LLM backend does.
C1_Closure == cpc = "returned" => category \in Taxonomy

\* C2: for empty or whitespace-only text classify_expense returns "Other"
\* without invoking the model, with or without a configured chain.
C2_BlankTextIsOther ==
    (cpc = "returned" /\ IsBlank(text)) => (category = Other /\ runs = 0)

\* the current call invoked chain.run and either chain.run raised (it left no
\* raw_result) or parsing its result raised
ModelPathRaised ==
    /\ runs > 0
    /\ \/ raw_result = NoResult
       \/ ParseRaises(raw_result)

\* C3: when chain.run or the parsing of its output raises, classify_expense
\* propagates nothing and returns fallback_classify(text).
C3_ExceptionFallsBack ==
    /\ cpc \in {"idle", "called", "running", "parsing", "except", "returned"}
    /\ cpc = "except" => ModelPathRaised
    /\ (cpc = "returned" /\ ModelPathRaised) => category = fallback_classify(text)

C3_Witness ==
    /\ cpc = "returned"
    /\ ModelPathRaised
    /\ ParseRaises(raw_result)
    /\ category = Travel

\* the keyword groups in the order the claim fixes, with their categories
KeywordGroupOrder ==
    << [cat |-> BusinessMeals,             kws |-> meal_keywords],
       [cat |-> Travel,                    kws |-> travel_keywords],
       [cat |-> OfficeSupplies,            kws |-> office_keywords],
       [cat |-> Utilities,                 kws |-> utility_keywords],
       [cat |-> HomeOffice,                kws |-> home_keywords],
       [cat |-> Advertising,               kws |-> ad_keywords],
       [cat |-> ProfessionalDevelopment,   kws |-> dev_keywords],
       [cat |-> Insurance,                 kws |-> << insurance_keyword >>],
       [cat |-> LegalProfessionalServices, kws |-> legal_keywords],
       [cat |-> VehicleExpenses,           kws |-> vehicle_keywords] >>

MatchingGroups(t) ==
    { g \in DOMAIN KeywordGroupOrder :
        \E k \in DOMAIN KeywordGroupOrder[g].kws :
            Contains(Lower(t), KeywordGroupOrder[g].kws[k]) }

FirstMatchingGroupCategory(t) ==
    IF MatchingGroups(t) = {} THEN Other
    ELSE KeywordGroupOrder[CHOOSE g \in MatchingGroups(t) :
                               \A h \in MatchingGroups(t) : g <= h].cat

\* C4: fallback_classify returns the category of the first keyword group, in
\* the fixed order, with a keyword occurring in the lower-cased text, and
\* "Other" when none matches; the four example texts get Business Meals,
\* Travel, Other and Business Meals.
C4_FirstGroupWins ==
    cpc = "returned" =>
        /\ category = FirstMatchingGroupCategory(text)
        /\ text = TextAirportStarbucks => category = BusinessMeals
        /\ text = TextStarbucksCoffee => category = BusinessMeals
        /\ text = TextUberRide => category = Travel
        /\ text = TextGibberish => category = Other

C4_Witness ==
    /\ cpc = "returned"
    /\ text = TextAirportStarbucks
    /\ Cardinality(MatchingGroups(text)) >= 2
    /\ category = BusinessMeals

\* phrase occurs in s, letter case ignored, with no word character right
\* before or right after the occurrence
OccursAsWholeWord(phrase, s) ==
    \E i \in 1..Len(s) :
        /\ i + Len(phrase) - 1 <= Len(s)
        /\ \A k \in 1..Len(phrase) : LowerChar(s[i + k - 1]) = LowerChar(phrase[k])
        /\ i = 1 \/ ~IsWordChar(s[i - 1])
        /\ i + Len(phrase) - 1 = Len(s) \/ ~IsWordChar(s[i + Len(phrase)])

FirstDeclaredCategoryIn(s) ==
    LET occurring == { c \in DOMAIN valid_categories :
                          OccursAsWholeWord(valid_categories[c], s) }
    IN  IF occurring = {} THEN Other
        ELSE valid_categories[CHOOSE c \in occurring : \A d \in occurring : c <= d]

\* C5: parse_llm_output always returns a taxonomy member: the first category
\* in declaration order whose phrase occurs in the output as a whole word,
\* case ignored, and "Other" for an empty output or one naming no category.
C5_ParseFirstDeclared ==
    cpc = "returned" =>
        /\ category \in Taxonomy
        /\ category = FirstDeclaredCategoryIn(raw_result.val)
        /\ raw_result.val = OutThinkOffice => category = OfficeSupplies
        /\ raw_result.val = <<>> => category = Other

C5_Witness ==
    /\ cpc = "returned"
    /\ raw_result.val = OutOtherThenTravel
    /\ category = Travel

(***************************************************************************)
(* Properties of ocr.py                                                    *)
(***************************************************************************)
\* the current extract_text call has ended, by return or by exception
Ended == opc \in {"returned", "raised"}

\* the direct pass gave no span with confidence > 0.5 (it returned none, or
\* raised) and the pass on the preprocessed image returned its spans
SecondPassDecides ==
    /\ Ended
    /\ pass1 # "none"
    /\ max1 <= 50
    /\ pass2 = "returned"

\* the texts of the spans of the second pass with confidence > 0.3, joined
\* by single spaces
QualifyingJoin ==
    Join(TextsOf(SelectSeq(results, LAMBDA s : s.conf > 30)), << " " >>)

SomeSpanAbovePoint3 == \E i \in DOMAIN results : results[i].conf > 30

\* some line of s has at least two characters once trimmed
HasLineOfTwo(s) ==
    \E i \in DOMAIN SplitLines(s) : Len(Strip(SplitLines(s)[i])) >= 2

\* C6 as stated: with no span > 0.5 on the direct pass and at least one span
\* > 0.3 on the preprocessed pass, extract_text returns a non-empty text.
C6_NonEmptyAfterPreprocessing ==
    (SecondPassDecides /\ SomeSpanAbovePoint3) => (opc = "returned" /\ ret # <<>>)

\* C6 amended: in that case extract_text returns, without raising, the
\* cleaned space-separated join of the spans > 0.3, which is non-empty
\* exactly when some line of that join keeps at least two characters.
C6_CleanedJoinAfterPreprocessing ==
    (SecondPassDecides /\ SomeSpanAbovePoint3) =>
        /\ opc = "returned"
        /\ ret = clean_extracted_text(QualifyingJoin)
        /\ ret # <<>> <=> HasLineOfTwo(QualifyingJoin)

C6_Witness ==
    /\ SecondPassDecides
    /\ SomeSpanAbovePoint3
    /\ \A i \in DOMAIN results : results[i].conf <= 50
    /\ opc = "returned"
    /\ ret # <<>>

\* C7: with the backend initialized, no span > 0.5 on the direct pass and no
\* span > 0.3 on the preprocessed pass, extract_text returns the empty
\* string and raises nothing.
C7_EmptyResultNotException ==
    (SecondPassDecides /\ reader > 0 /\ ~SomeSpanAbovePoint3) =>
        (opc = "returned" /\ ret = <<>>)

C7_Witness ==
    /\ SecondPassDecides
    /\ reader > 0
    /\ results # <<>>
    /\ ~SomeSpanAbovePoint3
    /\ opc = "returned"
    /\ ret = <<>>

\* C8: when get_ocr_reader returns None, extract_text raises at once: no OCR
\* pass, no preprocessing, no temporary file, and never a returned text.
C8_UnavailableIsImmediateError ==
    reader = 0 =>
        /\ opc = "raised"
        /\ ocr_calls = 0
        /\ preproc_calls = 0
        /\ pass1 = "none"
        /\ pass2 = "none"
        /\ temp_file = "none"

C8_Witness ==
    /\ reader = 0
    /\ opc = "raised"
    /\ image_exists

\* s, when not empty, is made of lines of at least two characters that
\* neither start nor end with whitespace
WellFormedText(s) ==
    \/ s = <<>>
    \/ \A i \in DOMAIN SplitLines(s) :
           LET line == SplitLines(s)[i]
           IN  /\ Len(line) >= 2
               /\ line[1] \notin Whitespace
               /\ line[Len(line)] \notin Whitespace

\* C9: every value extract_text returns has no blank line, no line with
\* leading or trailing whitespace and no line shorter than 2 characters.
C9_ReturnedTextIsClean == opc = "returned" => WellFormedText(ret)

C9_Witness ==
    /\ opc = "returned"
    /\ Len(SplitLines(ret)) >= 2
    /\ \E i \in DOMAIN results : results[i].text # Strip(results[i].text)

\* C10: under concurrent calls of get_ocr_reader the constructor succeeds at
\* most once in the process, and an installed backend is never replaced.
C10_AtMostOnceInit ==
    [][ /\ constructed' <= 1
        /\ ocr_reader # 0 => ocr_reader' = ocr_reader ]_vars

(***************************************************************************)
(* Further properties of ocr.py                                            *)
(***************************************************************************)
\* a step of preprocess_image failed in the current call: what it returned
\* is not the enhanced image
PreprocessingFailed == preprocessed_img \in {"gray", "None"}

\* C12: whenever a step of preprocess_image fails, an unreadable image
\* included, it returns a grayscale image the second pass can use, and the
\* failure never makes extract_text raise.
C12_PreprocessNeverAborts ==
    PreprocessingFailed =>
        /\ preprocessed_img = "gray"
        /\ opc = "raised" => (pass2 = "raised" \/ temp_file = "none")

\* the texts of the spans of the direct pass with confidence > 0.5, in
\* result order, joined by single spaces
DirectJoin ==
    Join(TextsOf(SelectSeq(results, LAMBDA s : s.conf > 50)), << " " >>)

\* C14: when the direct pass returns a span with confidence > 0.5,
\* extract_text returns the cleaned space-separated join of exactly those
\* spans, and runs neither preprocess_image nor a second OCR pass; a span at
\* exactly 0.5 does not qualify, so the call goes on to preprocessing.
C14_DirectPassShortCircuits ==
    /\ (pass1 = "returned" /\ max1 > 50) =>
           /\ opc = "returned"
           /\ ret = clean_extracted_text(DirectJoin)
           /\ ocr_calls = 1
           /\ preproc_calls = 0
           /\ pass2 = "none"
           /\ temp_file = "none"
    /\ (pass1 = "returned" /\ max1 <= 50) => opc # "returned" \/ pass2 = "returned"
    /\ (Ended /\ pass1 = "returned" /\ max1 <= 50) => preproc_calls = 1

C14_Witness ==
    /\ pass1 = "returned"
    /\ max1 > 50
    /\ Len(results) = 2
    /\ results[1].conf = 50
    /\ results[2].conf = 60
    /\ ret = results[2].text

C14_WitnessAtThreshold ==
    /\ Ended
    /\ pass1 = "returned"
    /\ max1 = 50
    /\ preproc_calls = 1

\* C15: an exception of the backend on the direct pass is caught and the
\* call goes on to the second pass (preprocessing, then OCR of the
\* preprocessed image); an exception on the second pass leaves extract_text
\* as an exception, never as an empty text.
C15_FirstCaughtSecondPropagates ==
    /\ (pass1 = "raised" /\ opc # "fallback") => preproc_calls = 1
    /\ pass1 = "raised" => ~(opc = "raised" /\ preproc_calls = 0)
    /\ (Ended /\ pass2 = "raised") => opc = "raised"
    /\ (Ended /\ preproc_calls = 1 /\ pass2 # "returned") => opc = "raised"

C15_Witness ==
    /\ pass1 = "raised"
    /\ pass2 = "raised"
    /\ opc = "raised"
    /\ reader > 0

\* C19: once a call of extract_text that reached the second pass has ended,
\* by return or by exception, the temporary file of the preprocessed image
\* no longer exists, also when writing that image failed.
C19_TempFileRemoved == (Ended /\ preproc_calls > 0) => temp_file # "exists"

(***************************************************************************)
(* Further properties of classify.py                                       *)
(***************************************************************************)
\* the model returned a str in which no category occurs as a whole word
UnparsableOutput ==
    /\ chain
    /\ runs > 0
    /\ raw_result.kind = "str"
    /\ \A c \in DOMAIN valid_categories :
           ~OccursAsWholeWord(valid_categories[c], raw_result.val)

C16_SingleInference ==
    /\ runs <= 1
    /\ cpc \in {"running", "parsing", "except"} => runs = 1
    /\ ~chain => runs = 0
    /\ (~chain /\ cpc = "returned") => category = fallback_classify(text)

C16_Witness ==
    /\ cpc = "returned"
    /\ runs = 1
    /\ raw_result = NoResult
    /\ category = fallback_classify(text)

C16_WitnessNoChain ==
    /\ cpc = "returned"
    /\ ~chain
    /\ runs = 0
    /\ category = OfficeSupplies

(***************************************************************************)
(* Properties of app.py                                                    *)
(***************************************************************************)
\* C11: every successful response of the /classify pipeline carries a
\* category that is one of the taxonomy members, whatever the OCR outcome
\* and whether or not a chain is configured
C11_SuccessCategoryInTaxonomy ==
    \A r \in Requests :
        handler[r].response.status = 200 => handler[r].response.category \in Taxonomy

\* a chain is configured, OCR gave the Starbucks receipt and the response
\* carries Business Meals
C11_Witness ==
    /\ chain
    /\ handler[1].response.status = 200
    /\ handler[1].extracted_text = TextStarbucksCoffee
    /\ handler[1].response.category = BusinessMeals

\* request r has saved its upload and extract_text has not ended
ReadingImage(r) == handler[r].pc \in {"ocr", "in_ocr"}

\* C17: the image file a request reads for OCR is never overwritten or
\* deleted by another request: while the request is between saving its
\* upload and the end of extract_text, the file at its temp_path is there
\* and holds its own upload
C17_ImageIsRequestLocal ==
    \A r \in Requests :
        ReadingImage(r) =>
            /\ Exists(handler[r].temp_path)
            /\ files[handler[r].temp_path] = r

\* request r got past "file.save(temp_path)"
UploadSaved(r) ==
    /\ handler[r].temp_path # NoPath
    /\ handler[r].pc # "save"
    /\ handler[r].response.error # "Failed to save uploaded image"

\* C18: on every path through the handler after the upload has been saved,
\* the temporary receipt file is gone when the response is returned
C18_NoPersistedFile ==
    \A r \in Requests :
        (handler[r].pc = "responded" /\ UploadSaved(r)) =>
            ~Exists(handler[r].temp_path)

====
